---- MODULE Spec2Model ----
(***************************************************************************)
(* Printers and describers of the octant dashboard: each handler maps one  *)
(* Kubernetes object (or list) plus injected dependencies (link resolver,  *)
(* object store) to a view component (table, summary, quadrant).           *)
(*                                                                         *)
(* A behaviour fixes one input and one set of dependency answers in Init   *)
(* and then invokes handlers on it; every invocation is one action that    *)
(* runs the whole handler.  A Go pointer is a sequence of length 0 (nil)   *)
(* or 1; a Go map is a function; an error is the sequence of its messages, *)
(* outermost wrapper first, so that its cause is the last element.         *)
(***************************************************************************)
EXTENDS Integers, Sequences, FiniteSets, TLC

(* ---------------------------- bounds ---------------------------------- *)
MaxItems == 2
MaxReplicas == 1
MaxKeys == 2
MaxRefs == 2
MaxStored == 2

Names == {"a", "b"}
Times == {1}
ReplicaCounts == 0..MaxReplicas
DataKeys == {"k" \o ToString(i) : i \in 1..MaxKeys}

(* ---------------------------- Go values ------------------------------- *)
Nil == <<>>
Ptr(v) == <<v>>
IsNil(p) == p = <<>>
Deref(p) == p[1]

NoErr == <<>>
ErrorsNew(msg) == <<msg>>
ErrorsWrap(err, msg) == <<msg>> \o err
Cause(err) == err[Len(err)]

(* every order in which the elements of S can be enumerated *)
Perms(S) == {p \in [1..Cardinality(S) -> S] : \A i, j \in 1..Cardinality(S) : p[i] = p[j] => i = j}

RECURSIVE SeqsUpTo(_, _)
SeqsUpTo(S, n) ==
    IF n = 0 THEN {<<>>}
    ELSE LET shorter == SeqsUpTo(S, n - 1)
         IN shorter \cup {Append(s, x) : s \in {t \in shorter : Len(t) = n - 1}, x \in S}

(* A call's outcome: a returned (component, error) pair or a panic.       *)
NilComp == [type |-> "nil"]
Return(comp, err) == [kind |-> "return", comp |-> comp, err |-> err]
Panic == [kind |-> "panic", comp |-> NilComp, err |-> NoErr]
NoRet == [kind |-> "none", comp |-> NilComp, err |-> NoErr]

(* ---------------------------- components ------------------------------ *)
NewTableCols(names) == names
NewTable(title, placeholder, cols) ==
    [type |-> "table", title |-> title, placeholder |-> placeholder,
     cols |-> cols, rows |-> <<>>]
TableAdd(table, row) == [table EXCEPT !.rows = Append(@, row)]
NewText(s) == [type |-> "text", text |-> s]
NewLabels(labels) == [type |-> "labels", labels |-> labels]
NewTimestamp(t) == [type |-> "timestamp", time |-> t]
NewLink(text, ref) == [type |-> "link", text |-> text, ref |-> ref]
NewSummary(title, sections) == [type |-> "summary", title |-> title, sections |-> sections]
SectionsAdd(sections, header, content) ==
    Append(sections, [Header |-> header, Content |-> content])

SprintfD(n) == ToString(n)
SprintfDSlashD(a, b) == ToString(a) \o "/" \o ToString(b)
PtrInt32ToString(p) == IF IsNil(p) THEN SprintfD(0) ELSE SprintfD(Deref(p))

(* ---------------------------- dependencies ---------------------------- *)
LinkErr == ErrorsNew("link error")
(* opts.Link.ForObject: fails for the names in linkFail *)
ForObject(object, name, fail) ==
    IF name \in fail
    THEN [link |-> NilComp, err |-> LinkErr]
    ELSE [link |-> NewLink(name, "/" \o name), err |-> NoErr]

(* options.Link.ForOwner: fails for the owner names in linkFail *)
ForOwner(parent, controllerRef, fail) ==
    IF controllerRef.Name \in fail
    THEN [link |-> NilComp, err |-> LinkErr]
    ELSE [link |-> NewLink(controllerRef.Name, "/" \o controllerRef.Name), err |-> NoErr]

StoreErr == ErrorsNew("store error")
(* store.Store.List: one answer per behaviour, a failure or the stored items *)
StoreList(store, key) ==
    IF store.fail THEN [items |-> <<>>, err |-> StoreErr]
    ELSE [items |-> store.items, err |-> NoErr]

(* what a call returns together with the dependency calls it made *)
Out(r, links, lists) == [ret |-> r, linkCalls |-> links, listCalls |-> lists]

(* ---------------------------- object.go, pods ------------------------- *)
PodKey(namespace) == [Namespace |-> namespace, APIVersion |-> "v1", Kind |-> "Pod"]

(* listPods: one List of the namespace's pods, kept when selected and owned *)
listPods(namespace, store) ==
    LET key == PodKey(namespace)
        l == StoreList(store, key)
    IN IF l.err # NoErr
       THEN [pods |-> <<>>, err |-> ErrorsWrap(l.err, "list all objects for key"), listCalls |-> <<key>>]
       ELSE [pods |-> SelectSeq(l.items, LAMBDA pod : pod.Selected), err |-> NoErr, listCalls |-> <<key>>]

CountPhase(pods, phase) == Cardinality({i \in 1..Len(pods) : pods[i].Phase = phase})
createPodStatus(pods) ==
    [Running |-> CountPhase(pods, "Running"), Waiting |-> CountPhase(pods, "Pending"),
     Succeeded |-> CountPhase(pods, "Succeeded"), Failed |-> CountPhase(pods, "Failed")]

createPodListView(object, store) ==
    LET l == listPods(object.Namespace, store)
    IN IF l.err # NoErr THEN Out(Return(NilComp, l.err), <<>>, l.listCalls)
       ELSE Out(Return([type |-> "table", title |-> "Pods",
                        placeholder |-> "We couldn't find any pods!",
                        cols |-> NewTableCols(<<"Name", "Phase">>),
                        rows |-> [i \in 1..Len(l.pods) |->
                                    [Name |-> NewText(l.pods[i].Name),
                                     Phase |-> NewText(l.pods[i].Phase)]]], NoErr),
                <<>>, l.listCalls)

NewObject(object) ==
    [object |-> object, config |-> NilComp, summary |-> NilComp,
     podTemplate |-> Nil, events |-> FALSE]

(* Object.ToComponent: runs the registered item functions in order and    *)
(* returns the first error, else the layout of config, summary and items  *)
RECURSIVE RunItems(_, _, _, _)
RunItems(items, i, comps, lists) ==
    IF i > Len(items) THEN [comps |-> comps, err |-> NoErr, listCalls |-> lists]
    ELSE LET it == items[i]
         IN IF it.ret.err # NoErr
            THEN [comps |-> <<>>, err |-> it.ret.err, listCalls |-> lists \o it.listCalls]
            ELSE RunItems(items, i + 1, Append(comps, it.ret.comp), lists \o it.listCalls)

ToComponent(o, items, links) ==
    LET r == RunItems(items, 1, <<>>, <<>>)
    IN IF r.err # NoErr THEN Out(Return(NilComp, r.err), links, r.listCalls)
       ELSE Out(Return([type |-> "flexlayout", config |-> o.config, summary |-> o.summary,
                        podTemplate |-> o.podTemplate, events |-> o.events,
                        items |-> r.comps], NoErr), links, r.listCalls)

(* ---------------------------- job.go ---------------------------------- *)
JobColsInit == NewTableCols(<<"Name", "Labels", "Completions", "Successful", "Age">>)

JobRow(job, nameLink) ==
    [Name |-> nameLink,
     Labels |-> NewLabels(job.Labels),
     Completions |-> NewText(PtrInt32ToString(job.Spec.Completions)),
     Successful |-> NewText(SprintfD(job.Status.Succeeded)),
     Age |-> NewTimestamp(job.CreationTimestamp)]

RECURSIVE JobListLoop(_, _, _, _, _)
JobListLoop(items, i, table, calls, fail) ==
    IF i > Len(items) THEN [ret |-> Return(table, NoErr), linkCalls |-> calls]
    ELSE LET job == items[i]
             l == ForObject(job, job.Name, fail)
             calls2 == Append(calls, [object |-> job, name |-> job.Name])
         IN IF l.err # NoErr
            THEN [ret |-> Return(NilComp, l.err), linkCalls |-> calls2]
            ELSE JobListLoop(items, i + 1, TableAdd(table, JobRow(job, l.link)), calls2, fail)

(* JobListHandler without its nil check: a nil list prints as an empty one *)
JobListHandler_NilAsEmpty(cols, list, fail) ==
    JobListLoop(IF IsNil(list) THEN <<>> ELSE Deref(list).Items, 1,
                NewTable("Jobs", "We couldn't find any jobs!", cols), <<>>, fail)

JobListHandler(cols, list, fail) ==
    IF IsNil(list)
    THEN [ret |-> Return(NilComp, ErrorsNew("job list is nil")), linkCalls |-> <<>>]
    ELSE JobListLoop(Deref(list).Items, 1,
                     NewTable("Jobs", "We couldn't find any jobs!", cols), <<>>, fail)


createJobConfiguration(job) ==
    LET s1 == SectionsAdd(<<>>, "Back Off Limit", NewText(PtrInt32ToString(job.Spec.BackoffLimit)))
        s2 == SectionsAdd(s1, "Completions", NewText(PtrInt32ToString(job.Spec.Completions)))
        s3 == SectionsAdd(s2, "Parallelism", NewText(PtrInt32ToString(job.Spec.Parallelism)))
    IN Return(NewSummary("Configuration", s3), NoErr)

(* createJobStatus adding Completed before Started *)
createJobStatus_CompletedFirst(job) ==
    LET s1 == IF ~IsNil(job.Status.CompletionTime)
              THEN SectionsAdd(<<>>, "Completed", NewTimestamp(Deref(job.Status.CompletionTime)))
              ELSE <<>>
        s2 == IF ~IsNil(job.Status.StartTime)
              THEN SectionsAdd(s1, "Started", NewTimestamp(Deref(job.Status.StartTime)))
              ELSE s1
        s3 == SectionsAdd(s2, "Succeeded", NewText(SprintfD(job.Status.Succeeded)))
    IN Return(NewSummary("Status", s3), NoErr)

createJobStatus(job) ==
    LET s1 == IF ~IsNil(job.Status.StartTime)
              THEN SectionsAdd(<<>>, "Started", NewTimestamp(Deref(job.Status.StartTime)))
              ELSE <<>>
        s2 == IF ~IsNil(job.Status.CompletionTime)
              THEN SectionsAdd(s1, "Completed", NewTimestamp(Deref(job.Status.CompletionTime)))
              ELSE s1
        s3 == SectionsAdd(s2, "Succeeded", NewText(SprintfD(job.Status.Succeeded)))
    IN Return(NewSummary("Status", s3), NoErr)

JobConditionRow(condition) ==
    ("Type" :> NewText(condition.Type)) @@
    ("Last Probe" :> NewTimestamp(condition.LastProbeTime)) @@
    ("Last Transition" :> NewTimestamp(condition.LastTransitionTime)) @@
    ("Status" :> NewText(condition.Status)) @@
    ("Message" :> NewText(condition.Message)) @@
    ("Reason" :> NewText(condition.Reason))

RECURSIVE JobConditionsLoop(_, _, _)
JobConditionsLoop(conditions, i, table) ==
    IF i > Len(conditions) THEN Return(table, NoErr)
    ELSE JobConditionsLoop(conditions, i + 1, TableAdd(table, JobConditionRow(conditions[i])))

(* the conditions table without the row of the last condition *)
createJobConditions_DropLast(conditions) ==
    JobConditionsLoop(SubSeq(conditions, 1, Len(conditions) - 1), 1,
        NewTable("Conditions", "There are no job conditions!",
                 NewTableCols(<<"Type", "Last Probe", "Last Transition",
                                "Status", "Message", "Reason">>)))

createJobConditions(conditions) ==
    JobConditionsLoop(conditions, 1,
        NewTable("Conditions", "There are no job conditions!",
                 NewTableCols(<<"Type", "Last Probe", "Last Transition",
                                "Status", "Message", "Reason">>)))

(* ---------------------------- secret.go ------------------------------- *)
secretTableColsInit == NewTableCols(<<"Name", "Labels", "Type", "Data", "Age">>)
secretDataColsInit == NewTableCols(<<"Key">>)

(* the Data cell counting the keys of StringData, which the store never fills *)
SecretRow_CountStringData(secret, nameLink) ==
    [Name |-> nameLink,
     Labels |-> NewLabels(secret.Labels),
     Type |-> NewText(secret.Type),
     Data |-> NewText(SprintfD(0)),
     Age |-> NewTimestamp(secret.CreationTimestamp)]

SecretRow(secret, nameLink) ==
    [Name |-> nameLink,
     Labels |-> NewLabels(secret.Labels),
     Type |-> NewText(secret.Type),
     Data |-> NewText(SprintfD(Cardinality(DOMAIN secret.Data))),
     Age |-> NewTimestamp(secret.CreationTimestamp)]

RECURSIVE SecretListLoop(_, _, _, _, _)
SecretListLoop(items, i, table, calls, fail) ==
    IF i > Len(items) THEN [ret |-> Return(table, NoErr), linkCalls |-> calls]
    ELSE LET secret == items[i]
             l == ForObject(secret, secret.Name, fail)
             calls2 == Append(calls, [object |-> secret, name |-> secret.Name])
         IN IF l.err # NoErr
            THEN [ret |-> Return(NilComp, l.err), linkCalls |-> calls2]
            ELSE SecretListLoop(items, i + 1, TableAdd(table, SecretRow(secret, l.link)), calls2, fail)

SecretListHandler(cols, list, fail) ==
    IF IsNil(list)
    THEN [ret |-> Return(NilComp, ErrorsNew("list of secrets is nil")), linkCalls |-> <<>>]
    ELSE SecretListLoop(Deref(list).Items, 1,
                        NewTable("Secrets", "We couldn't find any secrets!", cols), <<>>, fail)

secretConfiguration(secret) ==
    Return(NewSummary("Configuration", Append(<<>>, [Header |-> "Type", Content |-> NewText(secret.Type)])),
           NoErr)

RECURSIVE SecretDataLoop(_, _, _)
SecretDataLoop(keys, i, table) ==
    IF i > Len(keys) THEN Return(table, NoErr)
    ELSE SecretDataLoop(keys, i + 1, TableAdd(table, [Key |-> NewText(keys[i])]))

(* range over a Go map visits the keys in an unspecified order: every     *)
(* enumeration order is a possible outcome                                *)
MapRange(m) == Perms(DOMAIN m)

secretData(cols, secret) ==
    {SecretDataLoop(keys, 1, NewTable("Data", "This secret has no data!", cols)) :
        keys \in MapRange(secret.Data)}


(* the item function registered by SecretHandler is evaluated by ToComponent *)
SecretHandler(cols, secret, store) ==
    IF IsNil(secret)
    THEN {Out(Return(NilComp, ErrorsNew("secret is nil")), <<>>, <<>>)}
    ELSE LET o == [NewObject(secret) EXCEPT !.config = secretConfiguration(Deref(secret)).comp]
         IN {ToComponent(o, <<Out(d, <<>>, <<>>)>>, <<>>) : d \in secretData(cols, Deref(secret))}

(* ---------------------------- job.go (object handlers) ---------------- *)
JobHandler(job, store) ==
    IF IsNil(job)
    THEN Out(Panic, <<>>, <<>>)     \* createJobConfiguration(*job) dereferences nil
    ELSE LET j == Deref(job)
             o == [NewObject(job) EXCEPT !.config = createJobConfiguration(j).comp,
                                         !.summary = createJobStatus(j).comp,
                                         !.podTemplate = Ptr(j.Spec.Template),
                                         !.events = TRUE]
         IN ToComponent(o, <<createPodListView(j, store),
                             Out(createJobConditions(j.Status.Conditions), <<>>, <<>>)>>, <<>>)

JobKey(namespace) == [Namespace |-> namespace, APIVersion |-> "batch/v1beta1", Kind |-> "Job"]

AccessorErr == ErrorsNew("object does not implement the Object interfaces")
ConvertErr == ErrorsNew("unable to convert unstructured object")

OwnerMatches(ownerReference, apiVersion, kind, name) ==
    /\ ownerReference.APIVersion = apiVersion
    /\ ownerReference.Kind = kind
    /\ ownerReference.Name = name

(* the inner loop of createJobListView: one append per matching reference *)
RECURSIVE AppendPerOwner(_, _, _, _, _)
AppendPerOwner(refs, k, object, job, acc) ==
    IF k > Len(refs) THEN acc
    ELSE AppendPerOwner(refs, k + 1, object, job,
            IF OwnerMatches(refs[k], object.APIVersion, object.Kind, object.Name)
            THEN Append(acc, job) ELSE acc)

RECURSIVE JobListViewLoop(_, _, _, _)
JobListViewLoop(items, i, object, acc) ==
    IF i > Len(items) THEN [items |-> acc, err |-> NoErr]
    ELSE IF ~items[i].convertible THEN [items |-> <<>>, err |-> ConvertErr]
    ELSE LET job == items[i].Object
         IN JobListViewLoop(items, i + 1, object,
                AppendPerOwner(job.OwnerReferences, 1, object, job, acc))

(* createJobListView dropping the error of List and printing what it has *)
createJobListView_IgnoreListError(cols, object, store, fail) ==
    IF ~object.accessible
    THEN Out(Return(NilComp, ErrorsWrap(AccessorErr, "get namespace for object")), <<>>, <<>>)
    ELSE LET key == JobKey(object.Namespace)
             l == StoreList(store, key)
             f == JobListViewLoop(l.items, 1, object, <<>>)
         IN IF f.err # NoErr THEN Out(Return(NilComp, f.err), <<>>, <<key>>)
            ELSE LET h == JobListHandler(cols, Ptr([Items |-> f.items]), fail)
                 IN Out(h.ret, h.linkCalls, <<key>>)

createJobListView(cols, object, store, fail) ==
    IF ~object.accessible
    THEN Out(Return(NilComp, ErrorsWrap(AccessorErr, "get namespace for object")), <<>>, <<>>)
    ELSE LET key == JobKey(object.Namespace)
             l == StoreList(store, key)
         IN IF l.err # NoErr
            THEN Out(Return(NilComp, ErrorsWrap(l.err, "list all objects for key")), <<>>, <<key>>)
            ELSE LET f == JobListViewLoop(l.items, 1, object, <<>>)
                 IN IF f.err # NoErr THEN Out(Return(NilComp, f.err), <<>>, <<key>>)
                    ELSE LET h == JobListHandler(cols, Ptr([Items |-> f.items]), fail)
                         IN Out(h.ret, h.linkCalls, <<key>>)

(* ---------------------------- replicationcontroller.go ---------------- *)
NewContainers == [type |-> "containers", containers |-> <<>>]
ContainersAdd(c, name, image) ==
    [c EXCEPT !.containers = Append(@, [name |-> name, image |-> image])]
RECURSIVE AddContainers(_, _, _)
AddContainers(cs, i, acc) ==
    IF i > Len(cs) THEN acc
    ELSE AddContainers(cs, i + 1, ContainersAdd(acc, cs[i].Name, cs[i].Image))

printSelectorMap(selector) == [type |-> "selectors", labels |-> selector]

RCCols == NewTableCols(<<"Name", "Labels", "Status", "Age", "Containers", "Selector">>)

(* the Status cell computed from the desired replicas of the spec *)
RCStatusText_FromSpec(rc) ==
    SprintfD(rc.Status.AvailableReplicas) \o "/" \o PtrInt32ToString(rc.Spec.Replicas)

RCStatusText(rc) == SprintfDSlashD(rc.Status.AvailableReplicas, rc.Status.Replicas)

RCRow(rc, nameLink) ==
    [Name |-> nameLink,
     Labels |-> NewLabels(rc.Labels),
     Status |-> NewText(RCStatusText(rc)),
     Age |-> NewTimestamp(rc.CreationTimestamp),
     Containers |-> AddContainers(Deref(rc.Spec.Template).Spec.Containers, 1, NewContainers),
     Selector |-> printSelectorMap(rc.Spec.Selector)]

RECURSIVE RCListLoop(_, _, _, _, _)
RCListLoop(items, i, tbl, calls, fail) ==
    IF i > Len(items) THEN [ret |-> Return(tbl, NoErr), linkCalls |-> calls]
    ELSE LET rc == items[i]
             l == ForObject(rc, rc.Name, fail)
             calls2 == Append(calls, [object |-> rc, name |-> rc.Name])
         IN IF l.err # NoErr
            THEN [ret |-> Return(NilComp, l.err), linkCalls |-> calls2]
            ELSE IF IsNil(rc.Spec.Template)
            THEN [ret |-> Panic, linkCalls |-> calls2]   \* rc.Spec.Template.Spec on a nil pointer
            ELSE RCListLoop(items, i + 1, TableAdd(tbl, RCRow(rc, l.link)), calls2, fail)

ReplicationControllerListHandler(list, fail) ==
    IF IsNil(list)
    THEN [ret |-> Return(NilComp, ErrorsNew("nil list")), linkCalls |-> <<>>]
    ELSE RCListLoop(Deref(list).Items, 1,
                    NewTable("ReplicationControllers",
                             "We couldn't find any replication controllers!", RCCols),
                    <<>>, fail)

(* metav1.GetControllerOf: the first owner reference marked as controller *)
GetControllerOf(object) ==
    LET ctl == SelectSeq(object.OwnerReferences, LAMBDA ref : ref.Controller)
    IN IF ctl = <<>> THEN Nil ELSE Ptr(ctl[1])

(* the configuration summary showing Replica Status also when spec.Replicas is nil *)
ReplicationControllerConfigurationCreate_AlwaysReplicaStatus(rcPtr, fail) ==
    IF IsNil(rcPtr)
    THEN Out(Return(NilComp, ErrorsNew("replicationcontroller is nil")), <<>>, <<>>)
    ELSE LET replicationController == Deref(rcPtr)
             controllerRef == GetControllerOf(replicationController)
             owner == IF IsNil(controllerRef) THEN [link |-> NilComp, err |-> NoErr]
                      ELSE ForOwner(replicationController, Deref(controllerRef), fail)
             calls == IF IsNil(controllerRef) THEN <<>>
                      ELSE <<[object |-> replicationController, name |-> Deref(controllerRef).Name]>>
             s1 == IF IsNil(controllerRef) THEN <<>>
                   ELSE Append(<<>>, [Header |-> "Controlled By", Content |-> owner.link])
             current == SprintfD(replicationController.Status.ReadyReplicas)
             s2 == SectionsAdd(s1, "Replica Status",
                       NewText("Current " \o current \o " / Desired " \o
                               PtrInt32ToString(replicationController.Spec.Replicas)))
             s3 == SectionsAdd(s2, "Replicas", NewText(SprintfD(replicationController.Status.Replicas)))
         IN IF owner.err # NoErr THEN Out(Return(NilComp, owner.err), calls, <<>>)
            ELSE Out(Return(NewSummary("Configuration", s3), NoErr), calls, <<>>)

ReplicationControllerConfigurationCreate(rcPtr, fail) ==
    IF IsNil(rcPtr)
    THEN Out(Return(NilComp, ErrorsNew("replicationcontroller is nil")), <<>>, <<>>)
    ELSE LET replicationController == Deref(rcPtr)
             controllerRef == GetControllerOf(replicationController)
             owner == IF IsNil(controllerRef) THEN [link |-> NilComp, err |-> NoErr]
                      ELSE ForOwner(replicationController, Deref(controllerRef), fail)
             calls == IF IsNil(controllerRef) THEN <<>>
                      ELSE <<[object |-> replicationController, name |-> Deref(controllerRef).Name]>>
             s1 == IF IsNil(controllerRef) THEN <<>>
                   ELSE Append(<<>>, [Header |-> "Controlled By", Content |-> owner.link])
             current == SprintfD(replicationController.Status.ReadyReplicas)
             desired == replicationController.Spec.Replicas
             s2 == IF ~IsNil(desired)
                   THEN SectionsAdd(s1, "Replica Status",
                            NewText("Current " \o current \o " / Desired " \o SprintfD(Deref(desired))))
                   ELSE s1
             s3 == SectionsAdd(s2, "Replicas", NewText(SprintfD(replicationController.Status.Replicas)))
         IN IF owner.err # NoErr THEN Out(Return(NilComp, owner.err), calls, <<>>)
            ELSE Out(Return(NewSummary("Configuration", s3), NoErr), calls, <<>>)

NewQuadrant(title) == [type |-> "quadrant", title |-> title]
QuadrantSet(q, position, label, value) ==
    (position :> [label |-> label, value |-> value]) @@ q

(* the status generator listing the pods before it looks at its resource *)
ReplicationControllerStatusCreate_ListFirst(rcPtr, store) ==
    LET l == listPods(IF IsNil(rcPtr) THEN "" ELSE Deref(rcPtr).Namespace, store)
        ps == createPodStatus(l.pods)
        q1 == QuadrantSet(NewQuadrant("Status"), "nw", "Running", SprintfD(ps.Running))
        q2 == QuadrantSet(q1, "ne", "Waiting", SprintfD(ps.Waiting))
        q3 == QuadrantSet(q2, "sw", "Succeeded", SprintfD(ps.Succeeded))
        q4 == QuadrantSet(q3, "se", "Failed", SprintfD(ps.Failed))
    IN IF l.err # NoErr THEN Out(Return(NilComp, l.err), <<>>, l.listCalls)
       ELSE IF IsNil(rcPtr)
       THEN Out(Return(NilComp, ErrorsNew("replicationcontroller is nil")), <<>>, l.listCalls)
       ELSE Out(Return(q4, NoErr), <<>>, l.listCalls)

(* the status generator with the counts of Running and Waiting exchanged *)
ReplicationControllerStatusCreate_SwappedCounts(rcPtr, store) ==
    IF IsNil(rcPtr)
    THEN Out(Return(NilComp, ErrorsNew("replicationcontroller is nil")), <<>>, <<>>)
    ELSE LET l == listPods(Deref(rcPtr).Namespace, store)
             ps == createPodStatus(l.pods)
             q1 == QuadrantSet(NewQuadrant("Status"), "nw", "Running", SprintfD(ps.Waiting))
             q2 == QuadrantSet(q1, "ne", "Waiting", SprintfD(ps.Running))
             q3 == QuadrantSet(q2, "sw", "Succeeded", SprintfD(ps.Succeeded))
             q4 == QuadrantSet(q3, "se", "Failed", SprintfD(ps.Failed))
         IN IF l.err # NoErr THEN Out(Return(NilComp, l.err), <<>>, l.listCalls)
            ELSE Out(Return(q4, NoErr), <<>>, l.listCalls)

ReplicationControllerStatusCreate(rcPtr, store) ==
    IF IsNil(rcPtr)
    THEN Out(Return(NilComp, ErrorsNew("replicationcontroller is nil")), <<>>, <<>>)
    ELSE LET l == listPods(Deref(rcPtr).Namespace, store)
             ps == createPodStatus(l.pods)
             q1 == QuadrantSet(NewQuadrant("Status"), "nw", "Running", SprintfD(ps.Running))
             q2 == QuadrantSet(q1, "ne", "Waiting", SprintfD(ps.Waiting))
             q3 == QuadrantSet(q2, "sw", "Succeeded", SprintfD(ps.Succeeded))
             q4 == QuadrantSet(q3, "se", "Failed", SprintfD(ps.Failed))
         IN IF l.err # NoErr THEN Out(Return(NilComp, l.err), <<>>, l.listCalls)
            ELSE Out(Return(q4, NoErr), <<>>, l.listCalls)

ReplicationControllerHandler(rcPtr, store, fail) ==
    LET cfg == ReplicationControllerConfigurationCreate(rcPtr, fail)
    IN IF cfg.ret.err # NoErr THEN cfg
       ELSE IF IsNil(Deref(rcPtr).Spec.Template)
       THEN Out(Panic, cfg.linkCalls, <<>>)        \* *rc.Spec.Template on a nil pointer
       ELSE LET rc == Deref(rcPtr)
                o == [NewObject(rcPtr) EXCEPT !.config = cfg.ret.comp,
                                              !.podTemplate = rc.Spec.Template,
                                              !.events = TRUE]
            IN ToComponent(o, <<ReplicationControllerStatusCreate(rcPtr, store),
                                createPodListView(rc, store)>>, cfg.linkCalls)

(* ---------------------------- deployment.go --------------------------- *)
DeploymentStatusText(d) == SprintfDSlashD(d.Status.AvailableReplicas, d.Status.Replicas)

DeploymentRow(d, nameLink) ==
    [Name |-> nameLink,
     Labels |-> NewLabels(d.Labels),
     Status |-> NewText(DeploymentStatusText(d)),
     Age |-> NewTimestamp(d.CreationTimestamp),
     Containers |-> AddContainers(d.Spec.Template.Spec.Containers, 1, NewContainers),
     Selector |-> printSelectorMap(d.Spec.Selector)]

RECURSIVE DeploymentListLoop(_, _, _, _, _)
DeploymentListLoop(items, i, tbl, calls, fail) ==
    IF i > Len(items) THEN [ret |-> Return(tbl, NoErr), linkCalls |-> calls]
    ELSE LET d == items[i]
             l == ForObject(d, d.Name, fail)
             calls2 == Append(calls, [object |-> d, name |-> d.Name])
         IN IF l.err # NoErr
            THEN [ret |-> Return(NilComp, l.err), linkCalls |-> calls2]
            ELSE DeploymentListLoop(items, i + 1, TableAdd(tbl, DeploymentRow(d, l.link)), calls2, fail)

DeploymentListHandler(list, fail) ==
    IF IsNil(list)
    THEN [ret |-> Return(NilComp, ErrorsNew("list is nil")), linkCalls |-> <<>>]
    ELSE DeploymentListLoop(Deref(list).Items, 1,
            NewTable("Deployments", "We couldn't find any deployments!",
                     NewTableCols(<<"Name", "Labels", "Status", "Age", "Containers", "Selector">>)),
            <<>>, fail)

NewExpressionSelector(key, operator, values) ==
    [type |-> "expressionSelector", key |-> key, operator |-> operator, values |-> values]
NewLabelSelector(key, value) == [type |-> "labelSelector", key |-> key, value |-> value]
NewSelectors(selectors) == [type |-> "selectors", config |-> selectors]

RECURSIVE ExpressionSelectors(_, _, _)
ExpressionSelectors(exprs, i, out) ==
    IF i > Len(exprs) THEN out
    ELSE ExpressionSelectors(exprs, i + 1,
            Append(out, NewExpressionSelector(exprs[i].Key, exprs[i].Operator, exprs[i].Values)))

(* for lab, v := range MatchLabels: one order of the map's keys *)
LabelSelectors(labels, order) == [i \in 1..Len(order) |-> NewLabelSelector(order[i], labels[order[i]])]

(* the selectors with the match labels put before the match expressions *)
DeploymentSelectors_LabelsFirst(selector, order) ==
    NewSelectors(LabelSelectors(selector.MatchLabels, order)
                 \o ExpressionSelectors(selector.MatchExpressions, 1, <<>>))

DeploymentSelectors(selector, order) ==
    NewSelectors(ExpressionSelectors(selector.MatchExpressions, 1, <<>>)
                 \o LabelSelectors(selector.MatchLabels, order))

DeploymentConfigurationCreate(dPtr, order) ==
    IF IsNil(dPtr) THEN Return(NilComp, ErrorsNew("deployment is nil"))
    ELSE LET d == Deref(dPtr)
             ru == d.Spec.Strategy.RollingUpdate
             s1 == SectionsAdd(<<>>, "Deployment Strategy", NewText(d.Spec.Strategy.Type))
             s2 == IF ~IsNil(ru)
                   THEN SectionsAdd(s1, "Rolling Update Strategy",
                           NewText("Max Surge " \o Deref(ru).MaxSurge \o
                                   ", Max Unavailable " \o Deref(ru).MaxUnavailable))
                   ELSE s1
             s3 == IF ~IsNil(d.Spec.Selector)
                   THEN SectionsAdd(s2, "Selectors", DeploymentSelectors(Deref(d.Spec.Selector), order))
                   ELSE s2
             s4 == SectionsAdd(s3, "Min Ready Seconds", NewText(SprintfD(d.Spec.MinReadySeconds)))
             s5 == IF ~IsNil(d.Spec.RevisionHistoryLimit)
                   THEN SectionsAdd(s4, "Revision History Limit",
                                    NewText(SprintfD(Deref(d.Spec.RevisionHistoryLimit))))
                   ELSE s4
             s6 == SectionsAdd(s5, "Replicas", NewText(PtrInt32ToString(d.Spec.Replicas)))
         IN Return(NewSummary("Configuration", s6), NoErr)

deploymentConditionColumns ==
    NewTableCols(<<"Type", "Reason", "Status", "Message", "Last Update", "Last Transition">>)

DeploymentConditionRow(condition) ==
    ("Type" :> NewText(condition.Type)) @@
    ("Reason" :> NewText(condition.Reason)) @@
    ("Status" :> NewText(condition.Status)) @@
    ("Message" :> NewText(condition.Message)) @@
    ("Last Update" :> NewTimestamp(condition.LastUpdateTime)) @@
    ("Last Transition" :> NewTimestamp(condition.LastTransitionTime))

RECURSIVE DeploymentConditionsLoop(_, _, _)
DeploymentConditionsLoop(conditions, i, table) ==
    IF i > Len(conditions) THEN Return(table, NoErr)
    ELSE DeploymentConditionsLoop(conditions, i + 1,
                                  TableAdd(table, DeploymentConditionRow(conditions[i])))

deploymentConditions(deployment) ==
    DeploymentConditionsLoop(deployment.Status.Conditions, 1,
        NewTable("Conditions", "There are no deployment conditions!", deploymentConditionColumns))

(* ---------------------------- configmap.go ---------------------------- *)
describeConfigMapConfig(cmPtr) ==
    IF IsNil(cmPtr) THEN Return(NilComp, ErrorsNew("config map is nil"))
    ELSE Return(NewSummary("Configuration",
                    SectionsAdd(<<>>, "Age", NewTimestamp(Deref(cmPtr).CreationTimestamp))), NoErr)

(* ---------------------------- plugin_describer.go --------------------- *)
JSONMarshal(capabilities) ==
    "{\"IsModule\":" \o (IF capabilities.IsModule THEN "true" ELSE "false") \o "}"

(* the row keyed by the column name Capabilities *)
PluginRow_CapabilitiesKey(metadata) ==
    [Name |-> NewText(metadata.Name),
     Description |-> NewText(metadata.Description),
     Capabilities |-> NewText(JSONMarshal(metadata.Capabilities))]

PluginRow(metadata) ==
    [Name |-> NewText(metadata.Name),
     Description |-> NewText(metadata.Description),
     Capability |-> NewText(JSONMarshal(metadata.Capabilities))]

RECURSIVE PluginLoop(_, _, _)
PluginLoop(plugins, i, table) ==
    IF i > Len(plugins) THEN table
    ELSE PluginLoop(plugins, i + 1, TableAdd(table, PluginRow(plugins[i])))

PluginListDescribe(plugins) ==
    LET table == PluginLoop(plugins, 1,
                     NewTable("Plugins", "", NewTableCols(<<"Name", "Description", "Capabilities">>)))
    IN Return([type |-> "response",
               Components |-> <<[type |-> "list", title |-> "Plugins", items |-> <<table>>]>>], NoErr)

(* ---------------------------- configmap.go (list) --------------------- *)
ConfigMapRow(configMap, nameLink) ==
    [Name |-> nameLink,
     Labels |-> NewLabels(configMap.Labels),
     Data |-> NewText(SprintfD(Cardinality(DOMAIN configMap.Data))),
     Age |-> NewTimestamp(configMap.CreationTimestamp)]

RECURSIVE ConfigMapListLoop(_, _, _, _, _)
ConfigMapListLoop(items, i, table, calls, fail) ==
    IF i > Len(items) THEN [ret |-> Return(table, NoErr), linkCalls |-> calls]
    ELSE LET cm == items[i]
             l == ForObject(cm, cm.Name, fail)
             calls2 == Append(calls, [object |-> cm, name |-> cm.Name])
         IN IF l.err # NoErr
            THEN [ret |-> Return(NilComp, l.err), linkCalls |-> calls2]
            ELSE ConfigMapListLoop(items, i + 1, TableAdd(table, ConfigMapRow(cm, l.link)), calls2, fail)

ConfigMapListHandler(list, fail) ==
    IF IsNil(list)
    THEN [ret |-> Return(NilComp, ErrorsNew("list is nil")), linkCalls |-> <<>>]
    ELSE ConfigMapListLoop(Deref(list).Items, 1,
            NewTable("ConfigMaps", "We couldn't find any config maps!",
                     NewTableCols(<<"Name", "Labels", "Data", "Age">>)), <<>>, fail)

(* ---------------------------- serviceaccount.go (list) ---------------- *)
ServiceAccountRow(serviceAccount, nameLink) ==
    [Name |-> nameLink,
     Labels |-> NewLabels(serviceAccount.Labels),
     Secrets |-> NewText(SprintfD(Len(serviceAccount.Secrets))),
     Age |-> NewTimestamp(serviceAccount.CreationTimestamp)]

RECURSIVE ServiceAccountListLoop(_, _, _, _, _)
ServiceAccountListLoop(items, i, table, calls, fail) ==
    IF i > Len(items) THEN [ret |-> Return(table, NoErr), linkCalls |-> calls]
    ELSE LET sa == items[i]
             l == ForObject(sa, sa.Name, fail)
             calls2 == Append(calls, [object |-> sa, name |-> sa.Name])
         IN IF l.err # NoErr
            THEN [ret |-> Return(NilComp, l.err), linkCalls |-> calls2]
            ELSE ServiceAccountListLoop(items, i + 1,
                    TableAdd(table, ServiceAccountRow(sa, l.link)), calls2, fail)

ServiceAccountListHandler(list, fail) ==
    IF IsNil(list)
    THEN [ret |-> Return(NilComp, ErrorsNew("list is nil")), linkCalls |-> <<>>]
    ELSE ServiceAccountListLoop(Deref(list).Items, 1,
            NewTable("Service Accounts", "We couldn't find any service accounts!",
                     NewTableCols(<<"Name", "Labels", "Secrets", "Age">>)), <<>>, fail)

(* ---------------------------- serviceaccount.go ----------------------- *)
(* the store of a service account's namespace: List answers by kind, Get  *)
(* answers with the rules of the named role                               *)
StoreListKind(store, key) ==
    IF store.fail THEN [items |-> <<>>, err |-> StoreErr]
    ELSE [items |-> store.byKind[key.Kind], err |-> NoErr]
StoreGetRole(store, key) == store.roles[key.Name]

RoleBindingKey(namespace) ==
    [Namespace |-> namespace, APIVersion |-> "rbac.authorization.k8s.io/v1", Kind |-> "RoleBinding"]
ClusterRoleBindingKey ==
    [Namespace |-> "", APIVersion |-> "rbac.authorization.k8s.io/v1", Kind |-> "ClusterRoleBinding"]
RoleKey(namespace, roleRef) ==
    [Namespace |-> IF roleRef.Kind = "ClusterRole" THEN "" ELSE namespace,
     APIVersion |-> "rbac.authorization.k8s.io/v1", Kind |-> roleRef.Kind, Name |-> roleRef.Name]

SubjectMatches(subject, serviceAccount) ==
    \/ /\ subject.Kind = "ServiceAccount"
       /\ subject.Name = serviceAccount.Name
       /\ subject.Namespace = serviceAccount.Namespace
    \/ /\ subject.Kind = "Group"
       /\ subject.Name = "system:serviceaccounts"

BindingMatches(binding, serviceAccount) ==
    \E i \in 1..Len(binding.Subjects) : SubjectMatches(binding.Subjects[i], serviceAccount)

(* the rules of the roles of the matching bindings, in the bindings' order *)
RECURSIVE RulesOfBindings(_, _, _, _, _, _)
RulesOfBindings(bindings, i, serviceAccount, store, rules, gets) ==
    IF i > Len(bindings) THEN [rules |-> rules, gets |-> gets]
    ELSE IF BindingMatches(bindings[i], serviceAccount)
    THEN LET key == RoleKey(serviceAccount.Namespace, bindings[i].RoleRef)
         IN RulesOfBindings(bindings, i + 1, serviceAccount, store,
                            rules \o StoreGetRole(store, key), Append(gets, key))
    ELSE RulesOfBindings(bindings, i + 1, serviceAccount, store, rules, gets)

printPolicyRules(rules) == [type |-> "policyRules", rules |-> rules]

OutGets(r, lists, gets) == [ret |-> r, linkCalls |-> <<>>, listCalls |-> lists, getCalls |-> gets]

(* the policy rules with the cluster role bindings' rules put first *)
serviceAccountPolicyRulesRun_ClusterFirst(serviceAccount, store) ==
    LET rbKey == RoleBindingKey(serviceAccount.Namespace)
        rbs == StoreListKind(store, rbKey)
        crbs == StoreListKind(store, ClusterRoleBindingKey)
    IN IF rbs.err # NoErr THEN OutGets(Return(NilComp, rbs.err), <<rbKey>>, <<>>)
       ELSE IF crbs.err # NoErr
       THEN OutGets(Return(NilComp, crbs.err), <<rbKey, ClusterRoleBindingKey>>, <<>>)
       ELSE LET r1 == RulesOfBindings(crbs.items, 1, serviceAccount, store, <<>>, <<>>)
                r2 == RulesOfBindings(rbs.items, 1, serviceAccount, store, r1.rules, r1.gets)
            IN OutGets(Return(printPolicyRules(r2.rules), NoErr),
                       <<rbKey, ClusterRoleBindingKey>>, r2.gets)

serviceAccountPolicyRulesRun(serviceAccount, store) ==
    LET rbKey == RoleBindingKey(serviceAccount.Namespace)
        rbs == StoreListKind(store, rbKey)
        crbs == StoreListKind(store, ClusterRoleBindingKey)
    IN IF rbs.err # NoErr THEN OutGets(Return(NilComp, rbs.err), <<rbKey>>, <<>>)
       ELSE IF crbs.err # NoErr
       THEN OutGets(Return(NilComp, crbs.err), <<rbKey, ClusterRoleBindingKey>>, <<>>)
       ELSE LET r1 == RulesOfBindings(rbs.items, 1, serviceAccount, store, <<>>, <<>>)
                r2 == RulesOfBindings(crbs.items, 1, serviceAccount, store, r1.rules, r1.gets)
            IN OutGets(Return(printPolicyRules(r2.rules), NoErr),
                       <<rbKey, ClusterRoleBindingKey>>, r2.gets)

SecretKey(namespace) == [Namespace |-> namespace, APIVersion |-> "v1", Kind |-> "Secret"]

(* options.Link.ForGVK of a secret of the namespace *)
SecretLink(namespace, name) == NewLink(name, "/" \o name)

NewList(title, items) == [type |-> "list", title |-> title, items |-> items]

RECURSIVE SecretLinks(_, _, _, _)
SecretLinks(namespace, refs, i, links) ==
    IF i > Len(refs) THEN links
    ELSE SecretLinks(namespace, refs, i + 1, Append(links, SecretLink(namespace, refs[i].Name)))

IsTokenOf(secret, serviceAccount) ==
    /\ secret.Type = "kubernetes.io/service-account-token"
    /\ secret.Annotations["kubernetes.io/service-account.name"] = serviceAccount.Name
    /\ secret.Annotations["kubernetes.io/service-account.uid"] = serviceAccount.UID

RECURSIVE TokenSecrets(_, _, _, _)
TokenSecrets(secrets, i, serviceAccount, tokens) ==
    IF i > Len(secrets) THEN tokens
    ELSE TokenSecrets(secrets, i + 1, serviceAccount,
                      IF IsTokenOf(secrets[i], serviceAccount)
                      THEN Append(tokens, secrets[i]) ELSE tokens)

(* the Tokens section filled with every secret of the namespace *)
printServiceAccountConfig_AllSecrets(serviceAccount, store) ==
    LET key == SecretKey(serviceAccount.Namespace)
        listed == StoreListKind(store, key)
        ns == serviceAccount.Namespace
    IN IF listed.err # NoErr THEN Out(Return(NilComp, listed.err), <<>>, <<key>>)
       ELSE LET s1 == SectionsAdd(<<>>, "Image Pull Secrets",
                          NewList("", SecretLinks(ns, serviceAccount.ImagePullSecrets, 1, <<>>)))
                s2 == SectionsAdd(s1, "Mountable Secrets",
                          NewList("", SecretLinks(ns, serviceAccount.Secrets, 1, <<>>)))
                s3 == SectionsAdd(s2, "Tokens", NewList("", SecretLinks(ns, listed.items, 1, <<>>)))
            IN Out(Return(NewSummary("Configuration", s3), NoErr), <<>>, <<key>>)

printServiceAccountConfig(serviceAccount, store) ==
    LET key == SecretKey(serviceAccount.Namespace)
        listed == StoreListKind(store, key)
        ns == serviceAccount.Namespace
    IN IF listed.err # NoErr THEN Out(Return(NilComp, listed.err), <<>>, <<key>>)
       ELSE LET tokens == TokenSecrets(listed.items, 1, serviceAccount, <<>>)
                s1 == SectionsAdd(<<>>, "Image Pull Secrets",
                          NewList("", SecretLinks(ns, serviceAccount.ImagePullSecrets, 1, <<>>)))
                s2 == SectionsAdd(s1, "Mountable Secrets",
                          NewList("", SecretLinks(ns, serviceAccount.Secrets, 1, <<>>)))
                s3 == SectionsAdd(s2, "Tokens", NewList("", SecretLinks(ns, tokens, 1, <<>>)))
            IN Out(Return(NewSummary("Configuration", s3), NoErr), <<>>, <<key>>)

(* ---------------------------- concurrent invocations ------------------ *)
(* An invocation in progress: its handler, its argument and its locals.   *)
(* A step is the code between two uses of the link resolver; entering the *)
(* handler is the step that reads the package-level columns.              *)
NewProc(handler, list) ==
    [handler |-> handler, list |-> list, pc |-> "enter", i |-> 1, table |-> NilComp,
     calls |-> <<>>, ret |-> NoRet, overlapped |-> FALSE, keys |-> <<>>]

(* JobListHandler entered by an invocation that appends a column to JobCols *)
JobListEnter_WritesCols(cols, p) ==
    [cols |-> Append(cols, "Namespace"),
     proc |-> IF IsNil(p.list)
              THEN [p EXCEPT !.pc = "done", !.ret = Return(NilComp, ErrorsNew("job list is nil"))]
              ELSE [p EXCEPT !.pc = "loop",
                             !.table = NewTable("Jobs", "We couldn't find any jobs!", cols)]]

JobListEnter(cols, p) ==
    [cols |-> cols,
     proc |-> IF IsNil(p.list)
              THEN [p EXCEPT !.pc = "done", !.ret = Return(NilComp, ErrorsNew("job list is nil"))]
              ELSE [p EXCEPT !.pc = "loop",
                             !.table = NewTable("Jobs", "We couldn't find any jobs!", cols)]]

SecretListEnter(cols, p) ==
    [cols |-> cols,
     proc |-> IF IsNil(p.list)
              THEN [p EXCEPT !.pc = "done",
                             !.ret = Return(NilComp, ErrorsNew("list of secrets is nil"))]
              ELSE [p EXCEPT !.pc = "loop",
                             !.table = NewTable("Secrets", "We couldn't find any secrets!", cols)]]

(* secretData: the table over secretDataCols and the order its range takes *)
SecretDataEnter(cols, p, order) ==
    [cols |-> cols,
     proc |-> [p EXCEPT !.pc = "range", !.keys = order,
                        !.table = NewTable("Data", "This secret has no data!", cols)]]

SecretDataIterate(p) ==
    IF p.i > Len(p.keys)
    THEN [p EXCEPT !.pc = "done", !.ret = Return(p.table, NoErr)]
    ELSE [p EXCEPT !.i = @ + 1, !.table = TableAdd(@, [Key |-> NewText(p.keys[p.i])])]

(* one iteration of the handler's loop, or its return after the last one *)
ListIterate(p, fail) ==
    IF p.i > Len(Deref(p.list).Items)
    THEN [p EXCEPT !.pc = "done", !.ret = Return(p.table, NoErr)]
    ELSE LET item == Deref(p.list).Items[p.i]
             l == ForObject(item, item.Name, fail)
             calls2 == Append(p.calls, [object |-> item, name |-> item.Name])
         IN IF l.err # NoErr
            THEN [p EXCEPT !.pc = "done", !.calls = calls2, !.ret = Return(NilComp, l.err)]
            ELSE [p EXCEPT !.i = @ + 1, !.calls = calls2,
                           !.table = TableAdd(@, IF p.handler = "JobListHandler"
                                                 THEN JobRow(item, l.link)
                                                 ELSE SecretRow(item, l.link))]

(* ---------------------------- inputs ---------------------------------- *)
LabelSets == {<<>>, [k \in {"foo"} |-> "bar"]}
NoStore == [fail |-> FALSE, items |-> <<>>]
PodTemplate == [Spec |-> [Containers |-> <<[Name |-> "nginx", Image |-> "nginx:1.15"]>>]]

JobConditions ==
    [Type : {"Complete", "Failed"}, Status : {"True"}, LastProbeTime : Times,
     LastTransitionTime : Times, Message : {""}, Reason : {""}]

JobOf(name, labels, refs, completions, succeeded, start, completion, conditions) ==
    [Name |-> name, Namespace |-> "default", Labels |-> labels, CreationTimestamp |-> 1,
     OwnerReferences |-> refs,
     Spec |-> [Completions |-> completions, BackoffLimit |-> Ptr(6), Parallelism |-> Nil,
               Template |-> PodTemplate],
     Status |-> [Succeeded |-> succeeded, StartTime |-> start, CompletionTime |-> completion,
                 Conditions |-> conditions]]

JobItems ==
    {JobOf(n, l, <<>>, c, 1, Nil, Nil, <<>>) :
        n \in Names, l \in LabelSets, c \in {Nil, Ptr(1)}}
JobLists == {Nil} \cup {Ptr([Items |-> s]) : s \in SeqsUpTo(JobItems, MaxItems)}

JobObjects ==
    {JobOf("a", <<>>, <<>>, Ptr(1), 1, st, ct, cs) :
        st \in {Nil, Ptr(1)}, ct \in {Nil, Ptr(1)},
        cs \in SeqsUpTo(JobConditions, MaxItems)}

SecretOf(name, type, keys) ==
    [Name |-> name, Namespace |-> "default", Labels |-> <<>>, CreationTimestamp |-> 1,
     Type |-> type, Data |-> [k \in keys |-> "v"]]
SecretItems == {SecretOf(n, "Opaque", ks) : n \in Names, ks \in SUBSET DataKeys}
SecretLists == {Nil} \cup {Ptr([Items |-> s]) : s \in SeqsUpTo(SecretItems, MaxItems)}
SecretObjects == {SecretOf("a", "Opaque", ks) : ks \in SUBSET DataKeys}

ControllerRefs ==
    {<<>>,
     <<[APIVersion |-> "v1", Kind |-> "Owner", Name |-> "a", Controller |-> TRUE]>>,
     <<[APIVersion |-> "v1", Kind |-> "Owner", Name |-> "b", Controller |-> FALSE]>>}

RCOf(name, refs, desired, template, available, ready, replicas) ==
    [Name |-> name, Namespace |-> "default", Labels |-> <<>>, CreationTimestamp |-> 1,
     OwnerReferences |-> refs,
     Spec |-> [Replicas |-> desired, Selector |-> [k \in {"app"} |-> "myapp"],
               Template |-> template],
     Status |-> [Replicas |-> replicas, AvailableReplicas |-> available,
                 ReadyReplicas |-> ready]]
RCItems ==
    {RCOf(n, <<>>, Ptr(0), t, a, 0, MaxReplicas) :
        n \in Names, t \in {Nil, Ptr(PodTemplate)}, a \in ReplicaCounts}
RCLists == {Nil} \cup {Ptr([Items |-> s]) : s \in SeqsUpTo(RCItems, MaxItems)}
RCObjects ==
    {RCOf("a", refs, d, t, 0, rd, MaxReplicas) :
        refs \in ControllerRefs, d \in {Nil, Ptr(MaxReplicas)},
        t \in {Nil, Ptr(PodTemplate)}, rd \in ReplicaCounts}

Pods == [Name : {"p"}, Phase : {"Running", "Pending", "Succeeded", "Failed"}, Selected : {TRUE}]
        \cup {[Name |-> "q", Phase |-> "Running", Selected |-> FALSE]}
PodStores == {[fail |-> TRUE, items |-> <<>>]} \cup
             {[fail |-> FALSE, items |-> s] : s \in SeqsUpTo(Pods, MaxStored)}

OwnerObjects ==
    [accessible : BOOLEAN, Namespace : {"default"}, APIVersion : {"batch/v1beta1"},
     Kind : {"CronJob"}, Name : {"a"}]
JobOwnerRefs == [APIVersion : {"batch/v1beta1"}, Kind : {"CronJob"}, Name : Names]
StoredJobs ==
    {[convertible |-> TRUE, Object |-> JobOf(n, <<>>, refs, Nil, 0, Nil, Nil, <<>>)] :
        n \in Names, refs \in SeqsUpTo(JobOwnerRefs, MaxRefs)}
    \cup {[convertible |-> FALSE, Object |-> JobOf("a", <<>>, <<>>, Nil, 0, Nil, Nil, <<>>)]}
JobStores == {[fail |-> TRUE, items |-> <<>>]} \cup
             {[fail |-> FALSE, items |-> s] : s \in SeqsUpTo(StoredJobs, MaxStored)}

DeploymentOf(name, desired, available, replicas) ==
    [Name |-> name, Namespace |-> "default", Labels |-> <<>>, CreationTimestamp |-> 1,
     Spec |-> [Replicas |-> desired, MinReadySeconds |-> 0, RevisionHistoryLimit |-> Ptr(5),
               Strategy |-> [Type |-> "RollingUpdate",
                             RollingUpdate |-> Ptr([MaxSurge |-> "25%", MaxUnavailable |-> "25%"])],
               Selector |-> Ptr([MatchLabels |-> [k \in {"app"} |-> "my_app"],
                                 MatchExpressions |-> <<[Key |-> "key", Operator |-> "In",
                                                        Values |-> <<"value1", "value2">>]>>]),
               Template |-> PodTemplate],
     Status |-> [Replicas |-> replicas, AvailableReplicas |-> available]]
DeploymentItems ==
    {DeploymentOf(n, Ptr(0), a, MaxReplicas) : n \in Names, a \in ReplicaCounts}
DeploymentLists == {Nil} \cup {Ptr([Items |-> s]) : s \in SeqsUpTo(DeploymentItems, MaxItems)}
MatchExpressionLists ==
    {<<>>, <<[Key |-> "key", Operator |-> "In", Values |-> <<"value1", "value2">>]>>,
     <<[Key |-> "tier", Operator |-> "Exists", Values |-> <<>>],
       [Key |-> "key", Operator |-> "In", Values |-> <<"value1", "value2">>]>>}
DeploymentObjects ==
    {[DeploymentOf("a", d, 0, 0) EXCEPT
        !.Spec.Strategy.RollingUpdate = Ptr([MaxSurge |-> surge, MaxUnavailable |-> "25%"]),
        !.Spec.Selector = Ptr([MatchLabels |-> [k \in {"app"} |-> "my_app"], MatchExpressions |-> exprs])] :
        d \in {Nil, Ptr(MaxReplicas)}, surge \in {"25%", "1"}, exprs \in MatchExpressionLists}

ConfigMapObjects ==
    {[Name |-> "a", CreationTimestamp |-> 1, Data |-> [k \in ks |-> "v"]] : ks \in SUBSET DataKeys}

Plugins == [Name : Names, Description : {"this is a test"}, Capabilities : [IsModule : BOOLEAN]]
PluginStores == SeqsUpTo(Plugins, MaxItems)

ConfigMapItems ==
    {[Name |-> n, Labels |-> <<>>, CreationTimestamp |-> 1, Data |-> [k \in ks |-> "v"]] :
        n \in Names, ks \in SUBSET DataKeys}
ConfigMapLists == {Nil} \cup {Ptr([Items |-> s]) : s \in SeqsUpTo(ConfigMapItems, MaxItems)}

SecretRefs == SeqsUpTo({[Name |-> "secret"]}, MaxRefs)
ServiceAccountOf(name, secrets, pullSecrets) ==
    [Name |-> name, Namespace |-> "default", UID |-> "uid-" \o name, Labels |-> <<>>,
     CreationTimestamp |-> 1, Secrets |-> secrets, ImagePullSecrets |-> pullSecrets]
ServiceAccountItems == {ServiceAccountOf(n, refs, <<>>) : n \in Names, refs \in SecretRefs}
ServiceAccountLists ==
    {Nil} \cup {Ptr([Items |-> s]) : s \in SeqsUpTo(ServiceAccountItems, MaxItems)}

ConfigRefs == SeqsUpTo({[Name |-> n] : n \in Names}, MaxRefs) \ {<<>>}
ServiceAccountObjects ==
    {ServiceAccountOf("a", refs, pull) : refs \in ConfigRefs, pull \in {<<[Name |-> "a"]>>, <<[Name |-> "b"], [Name |-> "a"]>>}}

TokenType == "kubernetes.io/service-account-token"
StoredSecretOf(name, type, saName, saUID) ==
    [Name |-> name, Namespace |-> "default", Type |-> type,
     Annotations |-> [k \in {"kubernetes.io/service-account.name", "kubernetes.io/service-account.uid"} |->
                        IF k = "kubernetes.io/service-account.name" THEN saName ELSE saUID]]
StoredSecrets ==
    {StoredSecretOf(n, TokenType, "a", "uid-a") : n \in Names} \cup
    {StoredSecretOf(n, TokenType, "b", "uid-a") : n \in Names} \cup
    {StoredSecretOf(n, TokenType, "a", "uid-b") : n \in Names} \cup
    {StoredSecretOf(n, "Opaque", "a", "uid-a") : n \in Names}
(* the stores hold at least one token of the account, as the fixture does *)
SecretStores ==
    {[fail |-> TRUE, items |-> <<>>, byKind |-> [Secret |-> <<>>]]} \cup
    {[fail |-> FALSE, items |-> <<>>, byKind |-> [Secret |-> ss]] :
        ss \in {t \in SeqsUpTo(StoredSecrets, MaxStored) :
                  \E i \in 1..Len(t) : t[i] = StoredSecretOf(t[i].Name, TokenType, "a", "uid-a")}}

Subjects ==
    {[Kind |-> "ServiceAccount", Name |-> n, Namespace |-> "default"] : n \in Names}
    \cup {[Kind |-> "Group", Name |-> "system:serviceaccounts", Namespace |-> ""]}
RoleBindings ==
    {[Name |-> "rb", RoleRef |-> [Kind |-> "Role", Name |-> r], Subjects |-> <<s>>] :
        r \in {"role1", "role3"}, s \in Subjects}
ClusterRoleBindings ==
    {[Name |-> "crb", RoleRef |-> [Kind |-> "ClusterRole", Name |-> "role2"], Subjects |-> <<s>>] :
        s \in Subjects}
RoleRules == [role1 |-> <<"get pods", "list pods">>, role2 |-> <<"get nodes">>,
              role3 |-> <<"get secrets">>]
RbacStores ==
    {[fail |-> TRUE, items |-> <<>>, roles |-> RoleRules,
      byKind |-> [RoleBinding |-> <<>>, ClusterRoleBinding |-> <<>>]]} \cup
    {[fail |-> FALSE, items |-> <<>>, roles |-> RoleRules,
      byKind |-> [RoleBinding |-> rbs, ClusterRoleBinding |-> crbs]] :
        rbs \in SeqsUpTo(RoleBindings, MaxStored),
        crbs \in SeqsUpTo(ClusterRoleBindings, MaxStored)}

DeploymentConditions ==
    {[Type |-> "type" \o n, Status |-> "status" \o n, LastUpdateTime |-> 1,
      LastTransitionTime |-> 1, Reason |-> "reason" \o n, Message |-> "message" \o n] :
        n \in {"1", "2"}}
ConditionedDeployments ==
    {[Status |-> [Conditions |-> cs]] : cs \in SeqsUpTo(DeploymentConditions, MaxItems)}

ConcProcs == {1, 2}
ConcJobLists ==
    {Nil} \cup {Ptr([Items |-> s]) :
                  s \in SeqsUpTo({JobOf(n, <<>>, <<>>, Nil, 1, Nil, Nil, <<>>) : n \in Names}, MaxItems)}
ConcSecretLists ==
    {Nil} \cup {Ptr([Items |-> s]) :
                  s \in SeqsUpTo({SecretOf(n, "Opaque", {}) : n \in Names}, MaxItems)}
ConcInvocations ==
    {NewProc("JobListHandler", l) : l \in ConcJobLists} \cup
    {NewProc("SecretListHandler", l) : l \in ConcSecretLists} \cup
    {NewProc("secretData", Ptr(SecretOf("a", "Opaque", ks))) : ks \in SUBSET DataKeys}

VARIABLES JobCols, secretTableCols, secretDataCols,  \* package-level column definitions
          input,      \* the object or list the handlers are invoked on
          linkFail,   \* names for which the link resolver fails
          store,      \* the object store's answer to List
          called,     \* the handler invoked last
          ret,        \* what it returned
          prevRet,    \* what the invocation before returned, if of the same handler
          linkCalls,  \* the link resolver calls made by the last invocation
          listCalls,  \* the store List calls made by the last invocation
          getCalls,   \* the store Get calls made by the last invocation
          procs       \* the concurrent invocations in progress, each with its locals

vars == <<JobCols, secretTableCols, secretDataCols, input, linkFail, store,
          called, ret, prevRet, linkCalls, listCalls, getCalls,
          procs>>

PtrsTo(S) == {Nil} \cup {Ptr(x) : x \in S}

Init ==
    /\ JobCols = JobColsInit
    /\ secretTableCols = secretTableColsInit
    /\ secretDataCols = secretDataColsInit
    /\ called = "none"
    /\ ret = NoRet
    /\ prevRet = NoRet
    /\ linkCalls = <<>>
    /\ listCalls = <<>>
    /\ getCalls = <<>>
    /\ procs = <<>>
    /\ \/ /\ input \in [kind : {"JobList"}, list : JobLists]
          /\ linkFail \in SUBSET Names /\ store = NoStore
       \/ /\ input \in [kind : {"SecretList"}, list : SecretLists]
          /\ linkFail \in SUBSET Names /\ store = NoStore
       \/ /\ input \in [kind : {"ReplicationControllerList"}, list : RCLists]
          /\ linkFail \in SUBSET Names /\ store = NoStore
       \/ /\ input \in [kind : {"DeploymentList"}, list : DeploymentLists]
          /\ linkFail \in SUBSET Names /\ store = NoStore
       \/ /\ input \in [kind : {"Job"}, object : PtrsTo(JobObjects)]
          /\ linkFail = {} /\ store \in PodStores
       \/ /\ input \in [kind : {"Secret"}, object : PtrsTo(SecretObjects)]
          /\ linkFail = {} /\ store = NoStore
       \/ /\ input \in [kind : {"ReplicationController"}, object : PtrsTo(RCObjects)]
          /\ linkFail \in SUBSET {"a"} /\ store \in PodStores
       \/ /\ input \in [kind : {"Owner"}, object : OwnerObjects]
          /\ linkFail \in SUBSET {"a"} /\ store \in JobStores
       \/ /\ input \in [kind : {"Deployment"}, object : PtrsTo(DeploymentObjects)]
          /\ linkFail = {} /\ store = NoStore
       \/ /\ input \in [kind : {"ConfigMap"}, object : PtrsTo(ConfigMapObjects)]
          /\ linkFail = {} /\ store = NoStore
       \/ /\ input \in [kind : {"Plugins"}, plugins : PluginStores]
          /\ linkFail = {} /\ store = NoStore

       \/ /\ input \in [kind : {"ConfigMapList"}, list : ConfigMapLists]
          /\ linkFail \in SUBSET {"a"} /\ store = NoStore
       \/ /\ input \in [kind : {"ServiceAccountList"}, list : ServiceAccountLists]
          /\ linkFail \in SUBSET {"a"} /\ store = NoStore
       \/ /\ input \in [kind : {"ServiceAccountRules"}, object : {ServiceAccountOf("a", <<>>, <<>>)}]
          /\ linkFail = {} /\ store \in RbacStores
       \/ /\ input \in [kind : {"ServiceAccountConfig"}, object : ServiceAccountObjects]
          /\ linkFail = {} /\ store \in SecretStores
       \/ /\ input \in [kind : {"DeploymentConditions"}, object : {Ptr(d) : d \in ConditionedDeployments}]
          /\ linkFail = {} /\ store = NoStore
(* the end of every invocation: the result and the dependency calls are    *)
(* recorded, the input and the package-level variables are left alone      *)
FinishWithGets(name, r, links, lists, gets) ==
    /\ prevRet' = IF called = name THEN ret ELSE NoRet
    /\ called' = name
    /\ ret' = r
    /\ linkCalls' = links
    /\ listCalls' = lists
    /\ getCalls' = gets
    /\ UNCHANGED <<JobCols, secretTableCols, secretDataCols, input, linkFail, store, procs>>

Finish(name, r, links, lists) == FinishWithGets(name, r, links, lists, <<>>)

CallJobListHandler ==
    /\ input.kind = "JobList"
    /\ LET o == JobListHandler(JobCols, input.list, linkFail)
       IN Finish("JobListHandler", o.ret, o.linkCalls, <<>>)

CallSecretListHandler ==
    /\ input.kind = "SecretList"
    /\ LET o == SecretListHandler(secretTableCols, input.list, linkFail)
       IN Finish("SecretListHandler", o.ret, o.linkCalls, <<>>)

CallReplicationControllerListHandler ==
    /\ input.kind = "ReplicationControllerList"
    /\ LET o == ReplicationControllerListHandler(input.list, linkFail)
       IN Finish("ReplicationControllerListHandler", o.ret, o.linkCalls, <<>>)

CallDeploymentListHandler ==
    /\ input.kind = "DeploymentList"
    /\ LET o == DeploymentListHandler(input.list, linkFail)
       IN Finish("DeploymentListHandler", o.ret, o.linkCalls, <<>>)

CallJobHandler ==
    /\ input.kind = "Job"
    /\ LET o == JobHandler(input.object, store)
       IN Finish("JobHandler", o.ret, o.linkCalls, o.listCalls)

CallCreateJobConfiguration ==
    /\ input.kind = "Job" /\ ~IsNil(input.object)
    /\ Finish("createJobConfiguration", createJobConfiguration(Deref(input.object)), <<>>, <<>>)

CallCreateJobStatus ==
    /\ input.kind = "Job" /\ ~IsNil(input.object)
    /\ Finish("createJobStatus", createJobStatus(Deref(input.object)), <<>>, <<>>)

CallCreateJobConditions ==
    /\ input.kind = "Job" /\ ~IsNil(input.object)
    /\ Finish("createJobConditions",
              createJobConditions(Deref(input.object).Status.Conditions), <<>>, <<>>)

CallCreateJobListView ==
    /\ input.kind = "Owner"
    /\ LET o == createJobListView(JobCols, input.object, store, linkFail)
       IN Finish("createJobListView", o.ret, o.linkCalls, o.listCalls)

CallSecretHandler ==
    /\ input.kind = "Secret"
    /\ \E o \in SecretHandler(secretDataCols, input.object, store) :
          Finish("SecretHandler", o.ret, o.linkCalls, o.listCalls)

CallSecretConfiguration ==
    /\ input.kind = "Secret" /\ ~IsNil(input.object)
    /\ Finish("secretConfiguration", secretConfiguration(Deref(input.object)), <<>>, <<>>)

CallSecretData ==
    /\ input.kind = "Secret" /\ ~IsNil(input.object)
    /\ \E r \in secretData(secretDataCols, Deref(input.object)) :
          Finish("secretData", r, <<>>, <<>>)

CallReplicationControllerHandler ==
    /\ input.kind = "ReplicationController"
    /\ LET o == ReplicationControllerHandler(input.object, store, linkFail)
       IN Finish("ReplicationControllerHandler", o.ret, o.linkCalls, o.listCalls)

CallReplicationControllerConfigurationCreate ==
    /\ input.kind = "ReplicationController"
    /\ LET o == ReplicationControllerConfigurationCreate(input.object, linkFail)
       IN Finish("ReplicationControllerConfiguration.Create", o.ret, o.linkCalls, o.listCalls)

CallReplicationControllerStatusCreate ==
    /\ input.kind = "ReplicationController"
    /\ LET o == ReplicationControllerStatusCreate(input.object, store)
       IN Finish("ReplicationControllerStatus.Create", o.ret, o.linkCalls, o.listCalls)

CallDeploymentConfigurationCreate ==
    /\ input.kind = "Deployment"
    /\ \E order \in (IF IsNil(input.object) \/ IsNil(Deref(input.object).Spec.Selector)
                     THEN {<<>>}
                     ELSE MapRange(Deref(Deref(input.object).Spec.Selector).MatchLabels)) :
          Finish("DeploymentConfiguration.Create",
                 DeploymentConfigurationCreate(input.object, order), <<>>, <<>>)

CallDescribeConfigMapConfig ==
    /\ input.kind = "ConfigMap"
    /\ Finish("describeConfigMapConfig", describeConfigMapConfig(input.object), <<>>, <<>>)

CallPluginListDescribe ==
    /\ input.kind = "Plugins"
    /\ Finish("PluginListDescriber.Describe", PluginListDescribe(input.plugins), <<>>, <<>>)

CallConfigMapListHandler ==
    /\ input.kind = "ConfigMapList"
    /\ LET o == ConfigMapListHandler(input.list, linkFail)
       IN Finish("ConfigMapListHandler", o.ret, o.linkCalls, <<>>)

CallServiceAccountListHandler ==
    /\ input.kind = "ServiceAccountList"
    /\ LET o == ServiceAccountListHandler(input.list, linkFail)
       IN Finish("ServiceAccountListHandler", o.ret, o.linkCalls, <<>>)

CallServiceAccountPolicyRules ==
    /\ input.kind = "ServiceAccountRules"
    /\ LET o == serviceAccountPolicyRulesRun(input.object, store)
       IN FinishWithGets("serviceAccountPolicyRules.run", o.ret, o.linkCalls, o.listCalls, o.getCalls)

CallPrintServiceAccountConfig ==
    /\ input.kind = "ServiceAccountConfig"
    /\ LET o == printServiceAccountConfig(input.object, store)
       IN Finish("printServiceAccountConfig", o.ret, o.linkCalls, o.listCalls)

CallDeploymentConditions ==
    /\ input.kind = "DeploymentConditions"
    /\ Finish("deploymentConditions", deploymentConditions(Deref(input.object)), <<>>, <<>>)

(* -------- two invocations running concurrently over the package state -------- *)
InitConc ==
    /\ JobCols = JobColsInit
    /\ secretTableCols = secretTableColsInit
    /\ secretDataCols = secretDataColsInit
    /\ called = "none"
    /\ ret = NoRet
    /\ prevRet = NoRet
    /\ linkCalls = <<>>
    /\ listCalls = <<>>
    /\ getCalls = <<>>
    /\ input = [kind |-> "Concurrent"]
    /\ linkFail \in SUBSET Names
    /\ store = NoStore
    /\ procs \in [ConcProcs -> ConcInvocations]

ConcUnchanged ==
    UNCHANGED <<input, linkFail, store, called, ret, prevRet, linkCalls, listCalls, getCalls>>

Overlaps(p) == \E q \in ConcProcs \ {p} : procs[q].pc \in {"loop", "range"}

EnterJobListHandler(p) ==
    /\ procs[p].pc = "enter" /\ procs[p].handler = "JobListHandler"
    /\ LET o == JobListEnter(JobCols, procs[p])
       IN /\ JobCols' = o.cols
          /\ procs' = [procs EXCEPT ![p] =
                          [o.proc EXCEPT !.overlapped = Overlaps(p)]]
    /\ UNCHANGED <<secretTableCols, secretDataCols>>
    /\ ConcUnchanged

EnterSecretListHandler(p) ==
    /\ procs[p].pc = "enter" /\ procs[p].handler = "SecretListHandler"
    /\ LET o == SecretListEnter(secretTableCols, procs[p])
       IN /\ secretTableCols' = o.cols
          /\ procs' = [procs EXCEPT ![p] =
                          [o.proc EXCEPT !.overlapped = Overlaps(p)]]
    /\ UNCHANGED <<JobCols, secretDataCols>>
    /\ ConcUnchanged

IterateListHandler(p) ==
    /\ procs[p].pc = "loop"
    /\ procs' = [procs EXCEPT ![p] = ListIterate(procs[p], linkFail)]
    /\ UNCHANGED <<JobCols, secretTableCols, secretDataCols>>
    /\ ConcUnchanged

EnterSecretData(p) ==
    /\ procs[p].pc = "enter" /\ procs[p].handler = "secretData"
    /\ \E order \in MapRange(Deref(procs[p].list).Data) :
          LET o == SecretDataEnter(secretDataCols, procs[p], order)
          IN /\ secretDataCols' = o.cols
             /\ procs' = [procs EXCEPT ![p] = [o.proc EXCEPT !.overlapped = Overlaps(p)]]
    /\ UNCHANGED <<JobCols, secretTableCols>>
    /\ ConcUnchanged

IterateSecretData(p) ==
    /\ procs[p].pc = "range"
    /\ procs' = [procs EXCEPT ![p] = SecretDataIterate(procs[p])]
    /\ UNCHANGED <<JobCols, secretTableCols, secretDataCols>>
    /\ ConcUnchanged

NextConc ==
    \E p \in ConcProcs :
        \/ EnterJobListHandler(p)
        \/ EnterSecretListHandler(p)
        \/ IterateListHandler(p)
        \/ EnterSecretData(p)
        \/ IterateSecretData(p)

SpecConc == InitConc /\ [][NextConc]_vars

Next ==
    \/ CallJobListHandler
    \/ CallSecretListHandler
    \/ CallReplicationControllerListHandler
    \/ CallDeploymentListHandler
    \/ CallJobHandler
    \/ CallCreateJobConfiguration
    \/ CallCreateJobStatus
    \/ CallCreateJobConditions
    \/ CallCreateJobListView
    \/ CallSecretHandler
    \/ CallSecretConfiguration
    \/ CallSecretData
    \/ CallReplicationControllerHandler
    \/ CallReplicationControllerConfigurationCreate
    \/ CallReplicationControllerStatusCreate
    \/ CallDeploymentConfigurationCreate
    \/ CallDescribeConfigMapConfig
    \/ CallPluginListDescribe
    \/ CallConfigMapListHandler
    \/ CallServiceAccountListHandler
    \/ CallServiceAccountPolicyRules
    \/ CallPrintServiceAccountConfig
    \/ CallDeploymentConditions

Spec == Init /\ [][Next]_vars

(* ======================= properties of the handlers ==================== *)
ListHandlers == {"JobListHandler", "SecretListHandler", "ReplicationControllerListHandler"}
ObjectHandlers == {"JobHandler", "SecretHandler", "ReplicationControllerHandler"}
Generators == {"DeploymentConfiguration.Create", "describeConfigMapConfig",
               "ReplicationControllerConfiguration.Create",
               "ReplicationControllerStatus.Create"}

Items == Deref(input.list).Items
ErrorOnly == ret.kind = "return" /\ ret.err # NoErr /\ ret.comp = NilComp
Range(f) == {f[x] : x \in DOMAIN f}

(* C1: a list handler called with a nil list returns an error and a nil    *)
(* component, and has not called the link resolver                         *)
C1_NilListIsError ==
    (called \in ListHandlers /\ IsNil(input.list)) => (ErrorOnly /\ linkCalls = <<>>)

C1_Witness ==
    /\ called = "JobListHandler" /\ IsNil(input.list)
    /\ ret = Return(NilComp, ErrorsNew("job list is nil"))

(* C2: a single-object handler called with a nil object returns an error   *)
(* and no component, and does not panic                                    *)
C2_NilObjectIsError ==
    (called \in ObjectHandlers /\ IsNil(input.object)) => ErrorOnly

(* C3: a configuration or status generator built around a nil resource     *)
(* returns an error and nothing else, before any object-store call         *)
C3_NilGeneratorIsError ==
    (called \in Generators /\ IsNil(input.object)) => (ErrorOnly /\ listCalls = <<>>)

C3_Witness ==
    /\ called = "ReplicationControllerStatus.Create" /\ IsNil(input.object)
    /\ store.items # <<>>
    /\ ret = Return(NilComp, ErrorsNew("replicationcontroller is nil"))

(* C4: for a non-nil list of N items on all of which the link resolver     *)
(* succeeds, a list handler returns no error and a table of exactly N rows *)
(* in which row i comes from item i                                        *)
C4_OneRowPerItemInOrder ==
    (/\ called \in ListHandlers
     /\ ~IsNil(input.list)
     /\ \A i \in 1..Len(Items) : Items[i].Name \notin linkFail)
    => /\ ret.kind = "return" /\ ret.err = NoErr /\ ret.comp.type = "table"
       /\ Len(ret.comp.rows) = Len(Items)
       /\ \A i \in 1..Len(Items) :
             /\ ret.comp.rows[i].Name.text = Items[i].Name
             /\ ret.comp.rows[i].Labels.labels = Items[i].Labels

(* C5: two invocations of a printer on the same input, with the same link  *)
(* and store answers, return the same output, row order included           *)
C5_Deterministic ==
    prevRet.kind # "none" => prevRet = ret

(* C6: when the link resolver fails for some item of the list, a list      *)
(* handler returns exactly the resolver's error and a nil component        *)
C6_LinkErrorUnmodified ==
    (/\ called \in ListHandlers
     /\ ~IsNil(input.list)
     /\ \E k \in 1..Len(Items) : Items[k].Name \in linkFail)
    => ret = Return(NilComp, LinkErr)

(* C7: when the store's List fails, createJobListView returns a nil        *)
(* component and the store's error wrapped once, the status generator a    *)
(* nil component and the error of listPods as it is; List was called once  *)
C7_StoreErrorPropagated ==
    /\ (called = "createJobListView" /\ listCalls # <<>> /\ store.fail)
       => /\ ret.kind = "return" /\ ret.comp = NilComp
          /\ Len(ret.err) = 2 /\ <<Cause(ret.err)>> = StoreErr
          /\ listCalls = <<JobKey(input.object.Namespace)>>
          /\ linkCalls = <<>>
    /\ (called = "ReplicationControllerStatus.Create" /\ listCalls # <<>> /\ store.fail)
       => /\ ret.kind = "return" /\ ret.comp = NilComp
          /\ ret.err = listPods(Deref(input.object).Namespace, store).err
          /\ <<Cause(ret.err)>> = StoreErr
          /\ listCalls = <<PodKey(Deref(input.object).Namespace)>>

C7_Witness ==
    /\ called = "createJobListView" /\ store.fail
    /\ listCalls # <<>> /\ ret.err # NoErr

(* the tables a returned component holds *)
TablesOf(comp) ==
    CASE comp.type = "table" -> {comp}
      [] comp.type = "flexlayout" ->
            {comp.items[i] : i \in {j \in 1..Len(comp.items) : comp.items[j].type = "table"}}
      [] comp.type = "response" ->
            UNION {Range(comp.Components[i].items) : i \in 1..Len(comp.Components)}
      [] OTHER -> {}

ColumnsOf(title) ==
    CASE title = "Jobs" -> {"Name", "Labels", "Completions", "Successful", "Age"}
      [] title = "Conditions" -> {"Type", "Last Probe", "Last Transition", "Status",
                                  "Message", "Reason"}
      [] title = "Secrets" -> {"Name", "Labels", "Type", "Data", "Age"}
      [] title = "Data" -> {"Key"}
      [] title = "ReplicationControllers" -> {"Name", "Labels", "Status", "Age",
                                              "Containers", "Selector"}
      [] title = "Plugins" -> {"Name", "Description", "Capabilities"}
      [] OTHER -> {}

ClaimedTables == {"Jobs", "Conditions", "Secrets", "Data", "ReplicationControllers", "Plugins"}

(* C8: in every table returned, every key of every row is the name of one  *)
(* of the table's columns, and the columns are the ones listed per table   *)
C8_RowsReferenceColumns ==
    \A t \in TablesOf(ret.comp) :
        (t.title \in ClaimedTables /\ called # "deploymentConditions") =>
            /\ Range(t.cols) = ColumnsOf(t.title)
            /\ \A i \in 1..Len(t.rows) : DOMAIN t.rows[i] \subseteq Range(t.cols)

(* the headers of a summary, in order *)
Headers(summary) == [i \in 1..Len(summary.sections) |-> summary.sections[i].Header]
(* s lists some of the elements of authored, each once, in authored's order *)
InAuthoredOrder(s, authored) ==
    \E pos \in [1..Len(s) -> 1..Len(authored)] :
        /\ \A i \in 1..Len(s) : authored[pos[i]] = s[i]
        /\ \A i, j \in 1..Len(s) : i < j => pos[i] < pos[j]

(* C9: summary sections appear in the order they are authored, whatever    *)
(* optional sections are present                                           *)
C9_SectionsInAuthoredOrder ==
    /\ called = "createJobConfiguration"
       => Headers(ret.comp) = <<"Back Off Limit", "Completions", "Parallelism">>
    /\ called = "createJobStatus"
       => InAuthoredOrder(Headers(ret.comp), <<"Started", "Completed", "Succeeded">>)
    /\ (called = "ReplicationControllerConfiguration.Create" /\ ret.err = NoErr)
       => InAuthoredOrder(Headers(ret.comp), <<"Controlled By", "Replica Status", "Replicas">>)

C9_Witness ==
    /\ called = "createJobStatus"
    /\ Headers(ret.comp) = <<"Started", "Completed", "Succeeded">>

C11_CountCell ==
    (/\ called \in {"SecretListHandler", "ConfigMapListHandler", "ServiceAccountListHandler"}
     /\ ret.kind = "return" /\ ret.comp.type = "table")
    => \A i \in 1..Len(ret.comp.rows) :
          /\ called \in {"SecretListHandler", "ConfigMapListHandler"}
             => ret.comp.rows[i].Data =
                    [type |-> "text", text |-> ToString(Cardinality(DOMAIN Items[i].Data))]
          /\ called = "ServiceAccountListHandler"
             => ret.comp.rows[i].Secrets =
                    [type |-> "text", text |-> ToString(Len(Items[i].Secrets))]

C11_Witness ==
    /\ called = "SecretListHandler"
    /\ ret.kind = "return" /\ ret.comp.type = "table"
    /\ Len(ret.comp.rows) = 2
    /\ ret.comp.rows[1].Data.text = "2"
    /\ ret.comp.rows[2].Data.text = "0"
(* the stored pods the controller selects and owns, in the given phase *)
OwnedInPhase(phase) ==
    Cardinality({i \in 1..Len(store.items) :
                    store.items[i].Selected /\ store.items[i].Phase = phase})
Cell(label, n) == [label |-> label, value |-> ToString(n)]

(* C12: for a non-nil controller the status generator lists the pods of the *)
(* controller's namespace once and returns the quadrant Status whose cells  *)
(* Running, Waiting, Succeeded, Failed count the controller's pods in that  *)
(* state; k running pods of the controller and no others give k, 0, 0, 0    *)
C12_StatusQuadrant ==
    (/\ called = "ReplicationControllerStatus.Create"
     /\ ~IsNil(input.object) /\ ~store.fail)
    => /\ listCalls = <<[Namespace |-> Deref(input.object).Namespace,
                         APIVersion |-> "v1", Kind |-> "Pod"]>>
       /\ ret.kind = "return" /\ ret.err = NoErr
       /\ ret.comp.type = "quadrant" /\ ret.comp.title = "Status"
       /\ ret.comp.nw = Cell("Running", OwnedInPhase("Running"))
       /\ ret.comp.ne = Cell("Waiting", OwnedInPhase("Pending"))
       /\ ret.comp.sw = Cell("Succeeded", OwnedInPhase("Succeeded"))
       /\ ret.comp.se = Cell("Failed", OwnedInPhase("Failed"))
       /\ (\A i \in 1..Len(store.items) :
              store.items[i].Selected /\ store.items[i].Phase = "Running")
          => /\ ret.comp.nw.value = ToString(Len(store.items))
             /\ ret.comp.ne.value = "0" /\ ret.comp.sw.value = "0" /\ ret.comp.se.value = "0"

C12_Witness ==
    /\ called = "ReplicationControllerStatus.Create" /\ ~IsNil(input.object)
    /\ Len(store.items) = 2
    /\ \A i \in 1..2 : store.items[i].Selected /\ store.items[i].Phase = "Running"
    /\ ret.err = NoErr /\ ret.comp.nw.value = "2"
(* the rules of the roles referenced by those of the bindings whose subjects *)
(* match the account, binding after binding                                  *)
RECURSIVE ExpectedRules(_, _)
ExpectedRules(bindings, account) ==
    IF bindings = <<>> THEN <<>>
    ELSE LET b == Head(bindings)
             named == \E i \in 1..Len(b.Subjects) :
                         \/ /\ b.Subjects[i].Kind = "ServiceAccount"
                            /\ b.Subjects[i].Name = account.Name
                            /\ b.Subjects[i].Namespace = account.Namespace
                         \/ /\ b.Subjects[i].Kind = "Group"
                            /\ b.Subjects[i].Name = "system:serviceaccounts"
         IN (IF named THEN store.roles[b.RoleRef.Name] ELSE <<>>)
            \o ExpectedRules(Tail(bindings), account)

(* C13: the policy rules printed for a service account are the rules of the *)
(* roles of the matching RoleBindings of its namespace followed by those of *)
(* the matching ClusterRoleBindings, each role fetched with Get, the rules  *)
(* of a role in their order                                                 *)
C13_PolicyRules ==
    (called = "serviceAccountPolicyRules.run" /\ ~store.fail)
    => /\ ret.kind = "return" /\ ret.err = NoErr
       /\ ret.comp.rules = ExpectedRules(store.byKind.RoleBinding, input.object)
                           \o ExpectedRules(store.byKind.ClusterRoleBinding, input.object)
       /\ listCalls = <<RoleBindingKey(input.object.Namespace), ClusterRoleBindingKey>>
       /\ Len(getCalls) =
             Cardinality({i \in 1..Len(store.byKind.RoleBinding) :
                             ExpectedRules(<<store.byKind.RoleBinding[i]>>, input.object) # <<>>})
           + Cardinality({i \in 1..Len(store.byKind.ClusterRoleBinding) :
                             ExpectedRules(<<store.byKind.ClusterRoleBinding[i]>>, input.object) # <<>>})

C13_Witness ==
    /\ called = "serviceAccountPolicyRules.run" /\ ~store.fail
    /\ ret.comp.rules = <<"get pods", "list pods", "get nodes">>
    /\ Len(store.byKind.RoleBinding) = 2
    /\ store.byKind.ClusterRoleBinding[1].Subjects[1].Kind = "Group"
(* the names a list of links shows, in order *)
LinkTexts(list) == [i \in 1..Len(list.items) |-> list.items[i].text]
NamesOf(refs) == [i \in 1..Len(refs) |-> refs[i].Name]
AllLinks(list) == \A i \in 1..Len(list.items) : list.items[i].type = "link"
RECURSIVE TokenNames(_)
TokenNames(secrets) ==
    IF secrets = <<>> THEN <<>>
    ELSE (IF /\ Head(secrets).Type = "kubernetes.io/service-account-token"
             /\ Head(secrets).Annotations["kubernetes.io/service-account.name"] = input.object.Name
             /\ Head(secrets).Annotations["kubernetes.io/service-account.uid"] = input.object.UID
          THEN <<Head(secrets).Name>> ELSE <<>>) \o TokenNames(Tail(secrets))

C16_OneRowPerCondition ==
    (called \in {"createJobConditions", "deploymentConditions"})
    => LET conditions == Deref(input.object).Status.Conditions
           firstTime == IF called = "createJobConditions" THEN "Last Probe" ELSE "Last Update"
       IN /\ ret.kind = "return" /\ ret.err = NoErr
          /\ ret.comp.type = "table" /\ ret.comp.title = "Conditions"
          /\ Len(ret.comp.rows) = Len(conditions)
          /\ \A i \in 1..Len(conditions) :
                LET row == ret.comp.rows[i]
                    c == conditions[i]
                IN /\ row["Type"] = [type |-> "text", text |-> c.Type]
                   /\ row["Status"] = [type |-> "text", text |-> c.Status]
                   /\ row["Reason"] = [type |-> "text", text |-> c.Reason]
                   /\ row["Message"] = [type |-> "text", text |-> c.Message]
                   /\ row[firstTime].type = "timestamp"
                   /\ row["Last Transition"].type = "timestamp"
                   /\ DOMAIN row = {"Type", "Status", "Reason", "Message", firstTime, "Last Transition"}

C16_Witness ==
    /\ called = "createJobConditions"
    /\ Len(ret.comp.rows) = 2
    /\ ret.comp.rows[1]["Type"].text = "Complete"
    /\ ret.comp.rows[2]["Type"].text = "Failed"
(* the row the plugin list shows for a plugin *)
ExpectedPluginRow(p) ==
    [Name |-> [type |-> "text", text |-> p.Name],
     Description |-> [type |-> "text", text |-> p.Description],
     Capability |-> [type |-> "text",
                     text |-> IF p.Capabilities.IsModule THEN "{\"IsModule\":true}"
                              ELSE "{\"IsModule\":false}"]]

(* C17: describing the plugin list returns exactly one component, a list     *)
(* titled Plugins holding one table titled Plugins with the columns Name,    *)
(* Description, Capabilities and one row per registered plugin: its name     *)
(* under Name, its description under Description, the JSON encoding of its   *)
(* capabilities under the key Capability                                     *)
C17_PluginList ==
    (called = "PluginListDescriber.Describe")
    => /\ ret.kind = "return" /\ ret.err = NoErr
       /\ Len(ret.comp.Components) = 1
       /\ LET list == ret.comp.Components[1]
          IN /\ list.type = "list" /\ list.title = "Plugins"
             /\ Len(list.items) = 1
             /\ list.items[1].type = "table" /\ list.items[1].title = "Plugins"
             /\ list.items[1].cols = <<"Name", "Description", "Capabilities">>
             /\ Len(list.items[1].rows) = Len(input.plugins)
             /\ \A p \in Range(input.plugins) :
                   Cardinality({i \in 1..Len(list.items[1].rows) :
                                   list.items[1].rows[i] = ExpectedPluginRow(p)})
                   = Cardinality({i \in 1..Len(input.plugins) : input.plugins[i] = p})

C17_Witness ==
    /\ called = "PluginListDescriber.Describe"
    /\ Len(input.plugins) = 2
    /\ input.plugins[1].Name # input.plugins[2].Name
    /\ Len(ret.comp.Components[1].items[1].rows) = 2
    /\ ret.comp.Components[1].items[1].rows[1].Capability.text = "{\"IsModule\":true}"
(* what an invocation can return when it runs alone, with its link calls *)
Alone(p) ==
    CASE p.handler = "JobListHandler" ->
            {JobListHandler(<<"Name", "Labels", "Completions", "Successful", "Age">>, p.list, linkFail)}
      [] p.handler = "SecretListHandler" ->
            {SecretListHandler(<<"Name", "Labels", "Type", "Data", "Age">>, p.list, linkFail)}
      [] p.handler = "secretData" ->
            {[ret |-> r, linkCalls |-> <<>>] : r \in secretData(<<"Key">>, Deref(p.list))}

(* C18: invocations share no mutable state: the package-level columns keep   *)
(* their values whatever the handlers do, and however two invocations are    *)
(* interleaved each returns what it returns when it runs alone               *)
C18_NoSharedMutableState ==
    input.kind = "Concurrent"
    => /\ JobCols = <<"Name", "Labels", "Completions", "Successful", "Age">>
       /\ secretTableCols = <<"Name", "Labels", "Type", "Data", "Age">>
       /\ secretDataCols = <<"Key">>
       /\ \A p \in ConcProcs :
             procs[p].pc = "done"
             => [ret |-> procs[p].ret, linkCalls |-> procs[p].calls] \in Alone(procs[p])

C18_Witness ==
    /\ input.kind = "Concurrent"
    /\ \A p \in ConcProcs :
          /\ procs[p].pc = "done" /\ procs[p].handler = "JobListHandler"
          /\ procs[p].ret.err = NoErr /\ Len(procs[p].ret.comp.rows) = 2
    /\ procs[2].overlapped
    /\ procs[1].list # procs[2].list
(* the content of the section of a summary with the given header *)
HasSection(summary, header) == \E i \in 1..Len(summary.sections) : summary.sections[i].Header = header
SectionOf(summary, header) ==
    summary.sections[CHOOSE i \in 1..Len(summary.sections) : summary.sections[i].Header = header].Content

(* C19: a summary section for an optional field is present exactly when the  *)
(* field is set: the job Status summary has Started iff status.StartTime is  *)
(* set, Completed iff status.CompletionTime is set, and always Succeeded;    *)
(* the ReplicationController Configuration summary has Controlled By iff the *)
(* controller has a controlling owner reference, Replica Status ("Current    *)
(* <ready> / Desired <spec.Replicas>") iff spec.Replicas is set, and always  *)
(* Replicas (status.Replicas)                                                *)
C19_OptionalSections ==
    /\ called = "createJobStatus"
       => LET job == Deref(input.object)
          IN /\ ret.kind = "return" /\ ret.err = NoErr /\ ret.comp.type = "summary"
             /\ HasSection(ret.comp, "Started") <=> ~IsNil(job.Status.StartTime)
             /\ HasSection(ret.comp, "Completed") <=> ~IsNil(job.Status.CompletionTime)
             /\ HasSection(ret.comp, "Succeeded")
             /\ Range(Headers(ret.comp)) \subseteq {"Started", "Completed", "Succeeded"}
    /\ (called = "ReplicationControllerConfiguration.Create" /\ ret.kind = "return" /\ ret.err = NoErr)
       => LET rc == Deref(input.object)
          IN /\ ret.comp.type = "summary"
             /\ HasSection(ret.comp, "Controlled By")
                <=> \E i \in 1..Len(rc.OwnerReferences) : rc.OwnerReferences[i].Controller
             /\ HasSection(ret.comp, "Replica Status") <=> ~IsNil(rc.Spec.Replicas)
             /\ HasSection(ret.comp, "Replica Status")
                => SectionOf(ret.comp, "Replica Status") =
                      [type |-> "text",
                       text |-> "Current " \o ToString(rc.Status.ReadyReplicas) \o
                                " / Desired " \o ToString(Deref(rc.Spec.Replicas))]
             /\ HasSection(ret.comp, "Replicas")
             /\ SectionOf(ret.comp, "Replicas") = [type |-> "text", text |-> ToString(rc.Status.Replicas)]
             /\ Range(Headers(ret.comp)) \subseteq {"Controlled By", "Replica Status", "Replicas"}

C19_Witness ==
    /\ called = "ReplicationControllerConfiguration.Create" /\ ret.err = NoErr
    /\ IsNil(Deref(input.object).Spec.Replicas)
    /\ Deref(input.object).OwnerReferences # <<>>
    /\ ~Deref(input.object).OwnerReferences[1].Controller
    /\ Headers(ret.comp) = <<"Replicas">>
(* the stored jobs having an owner reference equal to the owner, in store order *)
OwnedJobs ==
    SelectSeq(store.items,
              LAMBDA j : \E i \in 1..Len(j.Object.OwnerReferences) :
                            /\ j.Object.OwnerReferences[i].APIVersion = input.object.APIVersion
                            /\ j.Object.OwnerReferences[i].Kind = input.object.Kind
                            /\ j.Object.OwnerReferences[i].Name = input.object.Name)

(* C20: the Jobs table createJobListView returns has exactly one row for each *)
(* listed job with an owner reference equal to the given object in           *)
(* apiVersion, kind and name, in store order, also when several of a job's   *)
(* owner references match; the other jobs never appear                       *)
C20_OwnedJobsOnce ==
    (/\ called = "createJobListView"
     /\ listCalls = <<[Namespace |-> input.object.Namespace, APIVersion |-> "batch/v1beta1",
                       Kind |-> "Job"]>>
     /\ ret.kind = "return" /\ ret.err = NoErr)
    => /\ ret.comp.type = "table" /\ ret.comp.title = "Jobs"
       /\ Len(ret.comp.rows) = Len(OwnedJobs)
       /\ \A i \in 1..Len(OwnedJobs) : ret.comp.rows[i].Name.text = OwnedJobs[i].Object.Name
(* the resolver call a list handler makes for an item *)
CallFor(item) == [object |-> item, name |-> item.Name]

(* C21: within one call of a list handler the link resolver is called at    *)
(* most once per item, in input order, with that item and its name; no call *)
(* follows a failing one; when every call succeeds there have been exactly  *)
(* N calls for N items                                                      *)
C21_LinkCallsOncePerItem ==
    (called \in ListHandlers /\ ~IsNil(input.list))
    => /\ Len(linkCalls) <= Len(Items)
       /\ \A i \in 1..Len(linkCalls) : linkCalls[i] = CallFor(Items[i])
       /\ \A i \in 1..Len(linkCalls) : i < Len(linkCalls) => linkCalls[i].name \notin linkFail
       /\ (\A i \in 1..Len(linkCalls) : linkCalls[i].name \notin linkFail)
          => Len(linkCalls) = Len(Items)

(* C22: for every ReplicationController that is not nil, its spec.Template  *)
(* nil or not, ReplicationControllerHandler ends by returning a component   *)
(* or an error and never panics                                             *)
C22_HandlerNeverPanics ==
    (called = "ReplicationControllerHandler" /\ ~IsNil(input.object))
    => ret.kind = "return"
====
